---- MODULE Spec2Model ----
(***************************************************************************)
(* Model of the TodoApp component (src/src/components/Todo.jsx): the task  *)
(* collection, the optimistic create and delete handlers with the values   *)
(* their closures captured, the list requests they trigger, and the        *)
(* search filter.                                                          *)
(***************************************************************************)
EXTENDS Integers, Sequences, FiniteSets, TLC

(* ------------------------------ bounds -------------------------------- *)

\* Submit events of the form (accepted or rejected).
MaxSubmits == 2
\* Clicks on a Delete button.
MaxDeletes == 1
\* Largest reading of the millisecond clock behind Date.now().
MaxClock == 2
\* Items the store holds before the session starts.
MaxSeed == 1

(* ------------------------------ strings ------------------------------- *)

\* A string is a sequence of characters; these are the characters typed.
Blank == " "

\* String.prototype.toLowerCase, character by character
LowerChar(c) ==
  IF c = "A" THEN "a" ELSE IF c = "B" THEN "b" ELSE c

toLowerCase(s) == [i \in 1..Len(s) |-> LowerChar(s[i])]

\* String.prototype.includes: q occurs in s as a contiguous run
includes(s, q) ==
  \E i \in 0..(Len(s) - Len(q)) : SubSeq(s, i + 1, i + Len(q)) = q

RECURSIVE trimStart(_)
trimStart(s) ==
  IF s # <<>> /\ Head(s) = Blank THEN trimStart(Tail(s)) ELSE s

RECURSIVE trimEnd(_)
trimEnd(s) ==
  IF s # <<>> /\ s[Len(s)] = Blank THEN trimEnd(SubSeq(s, 1, Len(s) - 1)) ELSE s

\* String.prototype.trim
trim(s) == trimEnd(trimStart(s))

\* What the user can type into the title, the description and the search box.
TitleInputs == {<<>>, <<Blank>>, <<"a">>}
DescriptionInputs == {<<>>, <<"B">>}
QueryInputs == {<<>>, <<"a">>, <<"A">>, <<"b">>, <<"a", "B">>, <<"b", "a">>}

(* ------------------------------- state -------------------------------- *)

VARIABLES
  todos,        \* useState([]): the collection
  loading,      \* useState(true)
  searchQuery,  \* useState('')
  formData,     \* useState({ title: '', description: '' })
  clock,        \* the last reading of Date.now()
  creates,      \* calls of handleAddTodo that went past the title check
  deletes,      \* calls of handleDelete
  fetches,      \* calls of fetchTodos
  store,        \* the items the Remote Store holds, in its order
  nextId,       \* the next id the Remote Store assigns
  alerts,       \* calls of alert()
  submits       \* submit events of the form

vars == <<todos, loading, searchQuery, formData, clock, creates, deletes,
          fetches, store, nextId, alerts, submits>>

EmptyForm == [title |-> <<>>, description |-> <<>>]

\* Items of the store before the session: ids "s1", "s2", ...
SeedTask(n) ==
  [_id |-> "s" \o ToString(n), title |-> <<"A">>, description |-> <<"b">>,
   createdAt |-> "server"]

SeedStore(n) == [i \in 1..n |-> SeedTask(i)]

\* A request of fetchTodos just issued
NewFetch(origin) == [origin |-> origin, pc |-> "sent", ok |-> FALSE, data |-> <<>>]

\* State after the first render and its effect: useEffect has called fetchTodos
Init ==
  /\ todos = <<>>
  /\ loading = TRUE
  /\ searchQuery = <<>>
  /\ formData = EmptyForm
  /\ clock = 1
  /\ creates = <<>>
  /\ deletes = <<>>
  /\ fetches = <<NewFetch(<<"mount">>)>>
  /\ \E n \in 0..MaxSeed : store = SeedStore(n) /\ nextId = n + 1
  /\ alerts = 0
  /\ submits = 0

(* ------------------------------ helpers ------------------------------- *)

\* todos.filter(t => t._id !== id)
WithoutIdInverted(list, id) == SelectSeq(list, LAMBDA t : t._id = id)

WithoutId(list, id) == SelectSeq(list, LAMBDA t : t._id # id)

\* the predicate of the search filter
MatchesExactCase(t, q) ==
  \/ includes(toLowerCase(t.title), q)
  \/ includes(toLowerCase(t.description), q)

Matches(t, q) ==
  \/ includes(toLowerCase(t.title), toLowerCase(q))
  \/ includes(toLowerCase(t.description), toLowerCase(q))

\* todos.filter(...) of filteredTodos
FilterTodos(list, q) == SelectSeq(list, LAMBDA t : Matches(t, q))

\* useMemo(..., [todos, searchQuery])
filteredTodos == FilterTodos(todos, searchQuery)

Ids(list) == {list[i]._id : i \in 1..Len(list)}

\* Date.now().toString()
TempId(now) == ToString(now)

\* if (!formData.title.trim()) return
TitleRejectedUntrimmed(form) == form.title = <<>>

TitleRejected(form) == trim(form.title) = <<>>

(* --------------------------- user input ------------------------------- *)

\* onChange of the title input: setFormData({...formData, title: value})
ChangeTitle(v) ==
  /\ submits < MaxSubmits
  /\ formData' = [formData EXCEPT !.title = v]
  /\ formData' # formData
  /\ UNCHANGED <<todos, loading, searchQuery, clock, creates, deletes, fetches,
                 store, nextId, alerts, submits>>

\* onChange of the description textarea
ChangeDescription(v) ==
  /\ submits < MaxSubmits
  /\ formData' = [formData EXCEPT !.description = v]
  /\ formData' # formData
  /\ UNCHANGED <<todos, loading, searchQuery, clock, creates, deletes, fetches,
                 store, nextId, alerts, submits>>

\* onChange of the search input: setSearchQuery(value)
ChangeSearch(q) ==
  /\ searchQuery' = q
  /\ searchQuery' # searchQuery
  /\ UNCHANGED <<todos, loading, formData, clock, creates, deletes, fetches,
                 store, nextId, alerts, submits>>

(* ---------------------------- fetchTodos ------------------------------ *)

\* GET /todos reaches the store, which answers with its items or fails
ListResponds(f, ok) ==
  /\ fetches[f].pc = "sent"
  /\ fetches' = [fetches EXCEPT ![f] =
       [@ EXCEPT !.pc = "answered", !.ok = ok,
                 !.data = IF ok THEN store ELSE <<>>]]
  /\ UNCHANGED <<todos, loading, searchQuery, formData, clock, creates,
                 deletes, store, nextId, alerts, submits>>

\* setTodos(res.data.data): the collection after a list response `data`
\* arrives while it is `current`
LoadedMerging(data, current) ==
  SelectSeq(current, LAMBDA t : t._id \notin {data[k]._id : k \in 1..Len(data)})
    \o data

LoadedAppending(data, current) ==
  data \o SelectSeq(current,
            LAMBDA t : t._id \notin {data[k]._id : k \in 1..Len(data)})

LoadedMarkingSynced(data, current) ==
  [k \in 1..Len(data) |->
     [_id |-> data[k]._id, title |-> data[k].title,
      description |-> data[k].description, createdAt |-> data[k].createdAt,
      sync |-> TRUE]]

Loaded(data, current) == data

\* the collection fetchTodos leaves: the try block or the catch block
FetchResultClearing(f) ==
  IF fetches[f].ok THEN Loaded(fetches[f].data, todos) ELSE <<>>

FetchResult(f) ==
  IF fetches[f].ok THEN Loaded(fetches[f].data, todos) ELSE todos

\* finally { setLoading(false) }
LoadingAfterFetchOnSuccess(f) == IF fetches[f].ok THEN FALSE ELSE loading

LoadingAfterFetch(f) == FALSE

\* the await of fetchTodos resumes: try / catch / finally
FetchSettles(f) ==
  /\ fetches[f].pc = "answered"
  /\ todos' = FetchResult(f)
  /\ loading' = LoadingAfterFetch(f)
  /\ fetches' = [fetches EXCEPT ![f] = [@ EXCEPT !.pc = "done", !.data = <<>>]]
  /\ UNCHANGED <<searchQuery, formData, clock, creates, deletes, store,
                 nextId, alerts, submits>>

(* --------------------------- handleAddTodo ---------------------------- *)

\* { ...formData, _id: tempId, createdAt: new Date(), sync: false }
NewTodo(form, tempId, now) ==
  [title |-> form.title, description |-> form.description, _id |-> tempId,
   createdAt |-> now, sync |-> FALSE]

\* [newTodo, ...todos]
InsertedAtEnd(entry, list) == Append(list, entry)

Inserted(entry, list) == <<entry>> \o list

\* handleAddTodo up to its await: the title check, the optimistic insert,
\* the reset of the form and the POST
SubmitForm ==
  /\ submits < MaxSubmits
  /\ submits' = submits + 1
  /\ IF TitleRejected(formData)
       THEN UNCHANGED <<todos, formData, creates, clock>>
       ELSE \E now \in clock..MaxClock :
            /\ clock' = now
            /\ todos' = Inserted(NewTodo(formData, TempId(now), now), todos)
            /\ formData' = EmptyForm
            /\ creates' = Append(creates,
                 [tempId |-> TempId(now), todos |-> todos,
                  formData |-> formData, pc |-> "post", serverId |-> ""])
  /\ UNCHANGED <<loading, searchQuery, deletes, fetches, store, nextId,
                 alerts>>

\* the item POST /createTodo stores
StoredTask(form, id) ==
  [_id |-> "s" \o ToString(id), title |-> form.title,
   description |-> form.description, createdAt |-> "server"]

\* the todos the catch block of handleAddTodo sets: `todos` there is the
\* value the handler's closure captured when the form was submitted
RolledBackFromCurrent(c) == WithoutId(todos, c.tempId)

RolledBack(c) == WithoutId(c.todos, c.tempId)

\* the requests of fetchTodos after the await of handleAddTodo: the try
\* block calls fetchTodos(), the catch block calls nothing
CreateFollowUpAlways(i, failed) ==
  Append(fetches, NewFetch(<<"create", i>>))

CreateFollowUp(i, failed) ==
  IF failed THEN fetches ELSE Append(fetches, NewFetch(<<"create", i>>))

\* where handleAddTodo ends after its await: the try block, or the catch
\* block that takes the error of the POST
PostOutcomeUncaught(failed) == IF failed THEN "uncaught" ELSE "posted"

PostOutcome(failed) == IF failed THEN "failed" ELSE "posted"

\* the await of handleAddTodo resumes with success: fetchTodos()
PostSucceeds(i) ==
  /\ creates[i].pc = "post"
  /\ store' = Append(store, StoredTask(creates[i].formData, nextId))
  /\ nextId' = nextId + 1
  /\ creates' = [creates EXCEPT ![i] =
       [@ EXCEPT !.pc = PostOutcome(FALSE), !.todos = <<>>,
                 !.serverId = StoredTask(creates[i].formData, nextId)._id]]
  /\ fetches' = CreateFollowUp(i, FALSE)
  /\ UNCHANGED <<todos, loading, searchQuery, formData, clock, deletes, alerts,
                 submits>>

\* alert("Failed to save todo.")
AlertSkipped == alerts

Alerted == alerts + 1

\* the await of handleAddTodo resumes with an error: rollback and alert
PostFails(i) ==
  /\ creates[i].pc = "post"
  /\ todos' = RolledBack(creates[i])
  /\ alerts' = Alerted
  /\ creates' = [creates EXCEPT ![i] =
       [@ EXCEPT !.pc = PostOutcome(TRUE), !.todos = <<>>]]
  /\ fetches' = CreateFollowUp(i, TRUE)
  /\ UNCHANGED <<loading, searchQuery, formData, clock, deletes, store,
                 nextId, submits>>

(* ---------------------------- handleDelete ---------------------------- *)

\* ids of the cards rendered with a Delete button
Rendered == IF loading THEN {} ELSE Ids(filteredTodos)

\* API.delete(`/deleteTodo/${id}`): the request handleDelete awaits
NewDeleteNotSent(id) == [id |-> id, pc |-> "deleted"]

NewDelete(id) == [id |-> id, pc |-> "delete"]

\* handleDelete up to its await: the optimistic removal and the DELETE
ClickDelete(id) ==
  /\ Len(deletes) < MaxDeletes
  /\ id \in Rendered
  /\ todos' = WithoutId(todos, id)
  /\ deletes' = Append(deletes, NewDelete(id))
  /\ UNCHANGED <<loading, searchQuery, formData, clock, creates, fetches,
                 store, nextId, alerts, submits>>

\* the requests of fetchTodos after the await of handleDelete: the catch
\* block calls fetchTodos(), the try block calls nothing
DeleteFollowUpAlways(j, failed) ==
  Append(fetches, NewFetch(<<"delete", j>>))

DeleteFollowUp(j, failed) ==
  IF failed THEN Append(fetches, NewFetch(<<"delete", j>>)) ELSE fetches

\* the await of handleDelete resumes with success: nothing more is done
DeleteSucceeds(j) ==
  /\ deletes[j].pc = "delete"
  /\ store' = WithoutId(store, deletes[j].id)
  /\ deletes' = [deletes EXCEPT ![j].pc = "deleted"]
  /\ fetches' = DeleteFollowUp(j, FALSE)
  /\ UNCHANGED <<todos, loading, searchQuery, formData, clock, creates,
                 nextId, alerts, submits>>

\* the await of handleDelete resumes with an error: fetchTodos();
\* the store may or may not have removed the item before the error
DeleteFails(j, removed) ==
  /\ deletes[j].pc = "delete"
  /\ store' = IF removed THEN WithoutId(store, deletes[j].id) ELSE store
  /\ deletes' = [deletes EXCEPT ![j].pc = "failed"]
  /\ fetches' = DeleteFollowUp(j, TRUE)
  /\ UNCHANGED <<todos, loading, searchQuery, formData, clock, creates,
                 nextId, alerts, submits>>

(* --------------------------- specification ---------------------------- *)

Next ==
  \/ \E v \in TitleInputs : ChangeTitle(v)
  \/ \E v \in DescriptionInputs : ChangeDescription(v)
  \/ SubmitForm
  \/ \E i \in 1..Len(creates) : PostSucceeds(i)
  \/ \E i \in 1..Len(creates) : PostFails(i)
  \/ \E id \in Ids(todos) : ClickDelete(id)
  \/ \E j \in 1..Len(deletes) : DeleteSucceeds(j)
  \/ \E j \in 1..Len(deletes) : \E removed \in BOOLEAN : DeleteFails(j, removed)
  \/ \E f \in 1..Len(fetches) : \E ok \in BOOLEAN : ListResponds(f, ok)
  \/ \E f \in 1..Len(fetches) : FetchSettles(f)

Spec == Init /\ [][Next]_vars

(* ------------------- the search filter on its own --------------------- *)

\* Items a list response can carry, told apart by title and description
FilterTask(k) ==
  CASE k = 1 -> [title |-> <<"a">>, description |-> <<>>]
    [] k = 2 -> [title |-> <<"A", "b">>, description |-> <<"B">>]
    [] k = 3 -> [title |-> <<"B">>, description |-> <<"b", "A">>]
    [] OTHER -> [title |-> <<Blank>>, description |-> <<"a", "b">>]

FilterKinds == 1..4

\* the collection a successful list response of n items leaves
LoadedTodos(kinds) ==
  [i \in 1..Len(kinds) |->
     [_id |-> "s" \o ToString(i), title |-> FilterTask(kinds[i]).title,
      description |-> FilterTask(kinds[i]).description,
      createdAt |-> "server"]]

\* Length of the collections the filter is tried on.
MaxFiltered == 2

KindLists ==
  UNION {[1..n -> FilterKinds] : n \in 0..MaxFiltered}

\* State after the first fetch has settled with some list
InitFilter ==
  /\ \E kinds \in KindLists : todos = LoadedTodos(kinds) /\ store = todos
  /\ nextId = Len(store) + 1
  /\ loading = FALSE
  /\ searchQuery = <<>>
  /\ formData = EmptyForm
  /\ clock = 1
  /\ creates = <<>>
  /\ deletes = <<>>
  /\ fetches = <<[NewFetch(<<"mount">>) EXCEPT !.pc = "done", !.ok = TRUE]>>
  /\ alerts = 0
  /\ submits = 0

NextFilter ==
  \E q \in QueryInputs : ChangeSearch(q)

SpecFilter == InitFilter /\ [][NextFilter]_vars


(* ====================================================================== *)
(*                              properties                                *)
(* ====================================================================== *)

\* the request of fetchTodos that create i issued after its POST succeeded
FetchOfCreate(i) ==
  {f \in 1..Len(fetches) : fetches[f].origin = <<"create", i>>}

\* create i has settled: its POST failed, or it succeeded and the load it
\* triggered has completed
CreateSettled(i) ==
  \/ creates[i].pc = "failed"
  \/ /\ creates[i].pc = "posted"
     /\ \A f \in FetchOfCreate(i) : fetches[f].pc = "done"

\* no other create was given the temporary id of create i
OwnTempId(i) ==
  \A k \in 1..Len(creates) : k # i => creates[k].tempId # creates[i].tempId

\* C1: once a create has settled, the collection holds no entry carrying
\* its temporary id, in that state and in every later one.  Stated for the
\* creates whose temporary id no other create shares.
C1_TempIdGoneOnceSettled ==
  \A i \in 1..Len(creates) :
    (CreateSettled(i) /\ OwnTempId(i)) => creates[i].tempId \notin Ids(todos)

\* create i takes its rollback step
RollsBack(i) ==
  /\ i \in 1..Len(creates)
  /\ creates[i].pc = "post"
  /\ creates'[i].pc = "failed"

\* `new` is `old` with the entries of id `id` taken out and nothing else
\* touched: the kept entries, in the same order
RECURSIVE RemovedFrom(_, _, _)
RemovedFrom(old, new, id) ==
  IF old = <<>> THEN new = <<>>
  ELSE IF Head(old)._id = id THEN RemovedFrom(Tail(old), new, id)
  ELSE /\ new # <<>>
       /\ Head(new) = Head(old)
       /\ RemovedFrom(Tail(old), Tail(new), id)

\* C2: the rollback of a failed create is exact: the collection right after
\* it is the collection right before it without the entry of the temporary
\* id, every other entry kept in place.
C2_RollbackExact ==
  [][\A i \in 1..Len(creates) :
       RollsBack(i) => RemovedFrom(todos, todos', creates[i].tempId)]_vars

\* C3: no two entries of the collection have the same id.
C3_NoDuplicateIds ==
  \A i, j \in 1..Len(todos) : i # j => todos[i]._id # todos[j]._id


\* fetchTodos request f takes its completion step
Completes(f) ==
  /\ f \in 1..Len(fetches)
  /\ fetches[f].pc = "answered"
  /\ fetches'[f].pc = "done"

\* apart from request f, no POST, DELETE or GET is in flight
NothingElseInFlight(f) ==
  /\ \A k \in 1..Len(creates) : creates[k].pc # "post"
  /\ \A j \in 1..Len(deletes) : deletes[j].pc # "delete"
  /\ \A g \in 1..Len(fetches) : g # f => fetches[g].pc = "done"

NoDuplicates(list) ==
  \A a, b \in 1..Len(list) : a # b => list[a]._id # list[b]._id

C5_RemoveIsExact ==
  [][ /\ Len(deletes') = Len(deletes) + 1
           => /\ deletes'[Len(deletes')].pc = "delete"
              /\ RemovedFrom(todos, todos', deletes'[Len(deletes')].id)
      /\ \A j \in 1..Len(deletes) :
           (deletes[j].pc = "delete" /\ deletes'[j].pc = "deleted")
             => todos' = todos ]_vars

\* a DELETE has succeeded, its item is gone and another entry is still there
C5_Witness ==
  \E j \in 1..Len(deletes) :
    /\ deletes[j].pc = "deleted"
    /\ deletes[j].id \notin Ids(todos)
    /\ todos # <<>>

\* the requests of fetchTodos that remove j issued
FetchOfDelete(j) ==
  {f \in 1..Len(fetches) : fetches[f].origin = <<"delete", j>>}

\* C6: a remove issues a list request exactly when its DELETE fails (one
\* request, none on success), and when that request succeeds the collection
\* becomes the returned list.
C6_LoadIffDeleteFails ==
  /\ [](\A j \in 1..Len(deletes) :
          Cardinality(FetchOfDelete(j)) =
            IF deletes[j].pc = "failed" THEN 1 ELSE 0)
  /\ [][\A j \in 1..Len(deletes) : \A f \in FetchOfDelete(j) :
          (Completes(f) /\ fetches[f].ok) => todos' = fetches[f].data]_vars

\* a DELETE failed without effect, its load succeeded and the item is back
C6_Witness ==
  \E j \in 1..Len(deletes) : \E f \in FetchOfDelete(j) :
    /\ deletes[j].pc = "failed"
    /\ fetches[f].pc = "done"
    /\ fetches[f].ok
    /\ deletes[j].id \in Ids(todos)
    /\ deletes[j].id \in Ids(store)

\* every character of s is white space
AllBlank(s) == \A k \in 1..Len(s) : s[k] = Blank

\* C7: a submit with an empty or all-blank title changes neither the
\* collection nor the form and issues no POST, GET or DELETE, whatever the
\* description is.
C7_BlankTitleIsNoOp ==
  [][(submits' = submits + 1 /\ AllBlank(formData.title))
       => UNCHANGED <<todos, formData, creates, fetches, deletes, store,
                      alerts, loading>>]_vars

\* a form with a blank title and a description was submitted and refused
C7_Witness ==
  /\ submits = MaxSubmits
  /\ Len(creates) < submits
  /\ formData.title = <<Blank>>
  /\ formData.description # <<>>

\* C8: the alerts raised are as many as the creates whose POST failed.
C8_AlertsCountFailedCreates ==
  alerts = Cardinality({i \in 1..Len(creates) : creates[i].pc = "failed"})

\* one create failed and was alerted; a create succeeded, a load failed and
\* a DELETE failed without any alert
C8_Witness ==
  /\ alerts = 1
  /\ \E i \in 1..Len(creates) : creates[i].pc = "posted"
  /\ \E f \in 1..Len(fetches) : fetches[f].pc = "done" /\ ~fetches[f].ok
  /\ \E j \in 1..Len(deletes) : deletes[j].pc = "failed"

\* C9: a load completion replaces the collection by the returned list when
\* the request succeeded and leaves it as it was when the request failed.
C9_LoadReplacesOrKeeps ==
  [][\A f \in 1..Len(fetches) :
       Completes(f) =>
         todos' = IF fetches[f].ok THEN fetches[f].data ELSE todos]_vars

\* a successful load dropped the pending entry of a create still in flight,
\* and a failed load has left a non-empty collection as it was
C9_Witness ==
  /\ \E i \in 1..Len(creates) :
       /\ creates[i].pc = "post"
       /\ creates[i].tempId \notin Ids(todos)
  /\ \A i \in 1..Len(creates) : creates[i].pc # "failed"
  /\ deletes = <<>>
  /\ \E f \in 1..Len(fetches) : fetches[f].pc = "done" /\ ~fetches[f].ok
  /\ todos # <<>>

\* two characters are the same letter, case aside
SameLetter(a, b) ==
  \/ a = b
  \/ {a, b} = {"a", "A"}
  \/ {a, b} = {"b", "B"}

\* q occurs in s as a contiguous run, case aside
ContainsIgnoringCase(s, q) ==
  \E i \in 0..(Len(s) - Len(q)) :
    \A k \in 1..Len(q) : SameLetter(s[i + k], q[k])

\* `new` is the entries of `old` whose title or description contains q,
\* case aside, in the order of `old`
RECURSIVE SelectedFrom(_, _, _)
SelectedFrom(old, new, q) ==
  IF old = <<>> THEN new = <<>>
  ELSE IF \/ ContainsIgnoringCase(Head(old).title, q)
          \/ ContainsIgnoringCase(Head(old).description, q)
       THEN /\ new # <<>>
            /\ Head(new) = Head(old)
            /\ SelectedFrom(Tail(old), Tail(new), q)
       ELSE SelectedFrom(Tail(old), new, q)

\* C10: the filtered view is the entries whose title or description
\* contains the query as a case-insensitive substring, in collection order;
\* filtering the view again gives the view; a change of the query leaves
\* the collection as it was.
C10_FilterIsSubstringMatch ==
  /\ [](/\ SelectedFrom(todos, filteredTodos, searchQuery)
        /\ FilterTodos(filteredTodos, searchQuery) = filteredTodos)
  /\ [][searchQuery' # searchQuery => todos' = todos]_vars

\* a query in another case than the text selects some entries and not all,
\* one of them by its description alone
C10_Witness ==
  /\ searchQuery = <<"b", "a">>
  /\ filteredTodos # <<>>
  /\ Len(filteredTodos) < Len(todos)
  /\ \E k \in 1..Len(filteredTodos) :
       /\ ~includes(filteredTodos[k].title, searchQuery)
       /\ ~includes(filteredTodos[k].description, searchQuery)
       /\ ~ContainsIgnoringCase(filteredTodos[k].title, searchQuery)


Kind(f) == fetches[f].origin[1]

\* C12: of a load issued after a create's success and a load issued after a
\* remove's failure that both succeed, the one completing later decides the
\* collection: at its completion the collection becomes its response alone,
\* whichever of the two was issued first.
C12_LaterLoadWins ==
  [][\A f, g \in 1..Len(fetches) :
       ( /\ {Kind(f), Kind(g)} = {"create", "delete"}
         /\ fetches[g].pc = "done"
         /\ fetches[g].ok
         /\ Completes(f)
         /\ fetches[f].ok )
       => todos' = fetches[f].data]_vars

\* the load of a failed remove was issued first and answered before the
\* create's POST stored its item; the create's load was issued after it, and
\* both succeeded: the collection lacks the stored item, so the remove's
\* load completed later and its response alone is the collection
C12_Witness ==
  /\ Len(creates) = 1
  /\ creates[1].pc = "posted"
  /\ Len(deletes) = 1
  /\ Len(fetches) = 3
  /\ \A f \in 1..3 : fetches[f].pc = "done"
  /\ ~fetches[1].ok
  /\ Kind(2) = "delete" /\ fetches[2].ok
  /\ Kind(3) = "create" /\ fetches[3].ok
  /\ creates[1].serverId \in Ids(store)
  /\ creates[1].serverId \notin Ids(todos)
  /\ todos # <<>>


\* a submit is accepted: handleAddTodo goes past its title check
Accepts == Len(creates') = Len(creates) + 1

\* C13: in the step that accepts a create, before its POST settles, the
\* collection becomes the new entry (the submitted title and description, the
\* temporary id, sync false) followed by the previous collection unchanged.
C13_OptimisticInsertAtFront ==
  [][Accepts =>
       /\ creates'[Len(creates')].pc = "post"
       /\ Len(todos') = Len(todos) + 1
       /\ \A k \in 1..Len(todos) : todos'[k + 1] = todos[k]
       /\ todos'[1].title = formData.title
       /\ todos'[1].description = formData.description
       /\ todos'[1]._id = creates'[Len(creates')].tempId
       /\ todos'[1].createdAt = clock'
       /\ todos'[1].sync = FALSE]_vars

\* a create with a description is in flight, its entry in front of an
\* older entry
C13_Witness ==
  /\ Len(todos) > 1
  /\ \E i \in 1..Len(creates) :
       /\ creates[i].pc = "post"
       /\ todos[1]._id = creates[i].tempId
       /\ todos[1].description # <<>>
       /\ todos[2]._id # creates[i].tempId


\* C14: nothing is retried.  A create has one POST and one list request
\* once the POST has succeeded, none otherwise; a remove has one DELETE and
\* one list request once the DELETE has failed, none otherwise; no other
\* list request exists than these and the one of the mount; a settled POST
\* or DELETE is not issued again, and a list request that completes, failed
\* or not, issues nothing.
C14_NoRetry ==
  /\ [](/\ \A i \in 1..Len(creates) :
             Cardinality(FetchOfCreate(i)) =
               IF creates[i].pc = "posted" THEN 1 ELSE 0
        /\ \A j \in 1..Len(deletes) :
             Cardinality(FetchOfDelete(j)) =
               IF deletes[j].pc = "failed" THEN 1 ELSE 0
        /\ Len(fetches) =
             1 + Cardinality({i \in 1..Len(creates) : creates[i].pc = "posted"})
               + Cardinality({j \in 1..Len(deletes) : deletes[j].pc = "failed"}))
  /\ [][/\ \A i \in 1..Len(creates) :
             creates[i].pc # "post" => creates'[i].pc = creates[i].pc
        /\ \A j \in 1..Len(deletes) :
             deletes[j].pc # "delete" => deletes'[j].pc = deletes[j].pc
        /\ \A f \in 1..Len(fetches) :
             /\ fetches[f].pc = "done" => fetches'[f].pc = "done"
             /\ Completes(f) =>
                  /\ Len(fetches') = Len(fetches)
                  /\ Len(creates') = Len(creates)
                  /\ Len(deletes') = Len(deletes)]_vars

\* every kind of request has failed once and everything has settled: a
\* failed POST, a succeeded POST whose list request failed, a failed DELETE
\* whose list request failed
C14_Witness ==
  /\ \E i \in 1..Len(creates) : creates[i].pc = "failed"
  /\ \E i \in 1..Len(creates) :
       /\ creates[i].pc = "posted"
       /\ \A f \in FetchOfCreate(i) : fetches[f].pc = "done" /\ ~fetches[f].ok
  /\ \E j \in 1..Len(deletes) :
       /\ deletes[j].pc = "failed"
       /\ \A f \in FetchOfDelete(j) : fetches[f].pc = "done" /\ ~fetches[f].ok
  /\ \A f \in 1..Len(fetches) : fetches[f].pc = "done"
  /\ Len(fetches) = 3


\* some request of the session has failed
SomethingFailed ==
  \/ \E i \in 1..Len(creates) : creates[i].pc = "failed"
  \/ \E j \in 1..Len(deletes) : deletes[j].pc = "failed"
  \/ \E f \in 1..Len(fetches) : fetches[f].pc = "done" /\ ~fetches[f].ok

C16_RollbackRestoresSnapshot ==
  [][\A i \in 1..Len(creates) :
       RollsBack(i) =>
         RemovedFrom(creates[i].todos, todos', creates[i].tempId)]_vars

\* a create failed while a later create was in flight and nothing was
\* loaded or deleted: the later create's pending entry is gone, taken by the
\* rollback to the older collection
C16_Witness ==
  /\ Len(creates) = 2
  /\ creates[1].pc = "failed"
  /\ creates[2].pc = "post"
  /\ creates[2].tempId # creates[1].tempId
  /\ creates[2].tempId \notin Ids(todos)
  /\ deletes = <<>>
  /\ \A f \in 1..Len(fetches) : ~(fetches[f].pc = "done" /\ fetches[f].ok)


\* t is an item of the store as a list response carries it: an item the
\* store held from the start, or the item stored for a succeeded POST
FromListResponse(t) ==
  \/ \E n \in 1..MaxSeed : t = SeedTask(n)
  \/ \E i \in 1..Len(creates) :
       /\ creates[i].pc = "posted"
       /\ t = [_id |-> creates[i].serverId,
               title |-> creates[i].formData.title,
               description |-> creates[i].formData.description,
               createdAt |-> "server"]

\* t is the temporary entry one of the accepted creates cs inserted
FromCreateOf(t, cs) ==
  \E i \in 1..Len(cs) : \E now \in 1..MaxClock :
    /\ ToString(now) = cs[i].tempId
    /\ t = [title |-> cs[i].formData.title,
            description |-> cs[i].formData.description,
            _id |-> cs[i].tempId, createdAt |-> now, sync |-> FALSE]

FromCreate(t) == FromCreateOf(t, creates)

\* C17: every entry of the collection is an item of a list response,
\* unmodified, or the temporary entry of an accepted create with that
\* create's title and description; and a step puts no entry into the
\* collection that was not in it, in the response completing in that step,
\* in the collection a rollback restores, or the new temporary entry.
C17_EntriesHaveAnOrigin ==
  /\ [](\A k \in 1..Len(todos) :
          FromListResponse(todos[k]) \/ FromCreate(todos[k]))
  /\ [][\A k \in 1..Len(todos') :
          \/ \E m \in 1..Len(todos) : todos'[k] = todos[m]
          \/ \E f \in 1..Len(fetches) :
               /\ Completes(f)
               /\ fetches[f].ok
               /\ \E m \in 1..Len(fetches[f].data) :
                    todos'[k] = fetches[f].data[m]
          \/ \E i \in 1..Len(creates) :
               /\ RollsBack(i)
               /\ \E m \in 1..Len(creates[i].todos) :
                    todos'[k] = creates[i].todos[m]
          \/ Accepts /\ k = 1 /\ FromCreateOf(todos'[k], creates')]_vars

\* the collection holds a temporary entry next to an item of a list
\* response that a succeeded POST stored
C17_Witness ==
  /\ \E k \in 1..Len(todos) : FromCreate(todos[k])
  /\ \E k \in 1..Len(todos) : \E i \in 1..Len(creates) :
       todos[k]._id = creates[i].serverId
  /\ \E k \in 1..Len(todos) : \E n \in 1..MaxSeed : todos[k] = SeedTask(n)


\* a remove is started: handleDelete is called
Removes == Len(deletes') = Len(deletes) + 1

\* C18: a remove of a pending entry whose POST is in flight issues a DELETE
\* with the temporary id and leaves the create as it is; when the POST then
\* succeeds and its load succeeds, the collection becomes the response, with
\* the created item under its server id (the session having issued no
\* delete for that id).
C18_RemoveOfPendingDoesNotCancel ==
  [][/\ \A i \in 1..Len(creates) :
          ( /\ Removes
            /\ creates[i].pc = "post"
            /\ creates[i].tempId \in Ids(todos)
            /\ creates[i].tempId \notin Ids(todos') )
          => /\ deletes'[Len(deletes')] =
                  [id |-> creates[i].tempId, pc |-> "delete"]
             /\ creates' = creates
             /\ fetches' = fetches
     /\ \A i \in 1..Len(creates) : \A f \in FetchOfCreate(i) :
          ( /\ Completes(f)
            /\ fetches[f].ok
            /\ \E j \in 1..Len(deletes) : deletes[j].id = creates[i].tempId
            /\ \A j \in 1..Len(deletes) : deletes[j].id # creates[i].serverId )
          => /\ todos' = fetches[f].data
             /\ creates[i].serverId \in Ids(todos')]_vars

\* the only create's pending entry was removed, its POST and its load
\* succeeded, and the item is listed under its server id
C18_Witness ==
  /\ Len(creates) = 1
  /\ creates[1].pc = "posted"
  /\ \A f \in FetchOfCreate(1) : fetches[f].pc = "done" /\ fetches[f].ok
  /\ \E j \in 1..Len(deletes) : deletes[j].id = creates[1].tempId
  /\ creates[1].serverId \in Ids(todos)
  /\ creates[1].tempId \notin Ids(todos)

====
